---- MODULE Spec2Model ----
(***************************************************************************)
(* Model of flask_app.py: the token-bucket admission control (tokens,      *)
(* last_refill, refill_tokens, qos_admit), the bounded metrics window      *)
(* (WINDOW, record, compute_metrics, WINDOW.clear) and the Flask request   *)
(* flow around them (start_timer, the views, end_timer).                   *)
(*                                                                         *)
(* Time is counted in ticks, TicksPerSec ticks to the second; the clock    *)
(* time.time() is the variable now, which only moves forward.              *)
(* Python threads interleave between bytecodes, so every read and every    *)
(* write of a module global is a step of its own; a sequential caller is   *)
(* the same steps with one thread at a time.                               *)
(***************************************************************************)
EXTENDS Integers, Sequences, FiniteSets, TLC

\* ---------------------------------------------------------------- bounds
\* Ticks of the clock per second (resolution of time.time() in the model).
TicksPerSec == 2
\* Last tick of the clock in the token-bucket specifications.
MaxTime == 5
\* Last tick of the clock in the concurrent admission specification.
RaceMaxTime == 1
\* Capacity of WINDOW, deque(maxlen=2000) in the source, scaled down.
WINDOW_MAXLEN == 5
\* Samples recorded beyond the capacity of WINDOW before a clear (the k of
\* "capacity + k").
MaxExtra == 2
\* Calls of qos_admit that may overlap before all callers have returned.
MaxEpochCalls == 2
\* Last tick of the clock in the request-flow specification.
HttpMaxTime == 1
\* Requests served between two clears of WINDOW in the request-flow
\* specification.
HttpMaxRecords == 3

\* ------------------------------------------------------ program constants
DEFAULT_TOKENS_PER_SEC == 5
DEFAULT_BURST == 10
RETRY_AFTER == 1
STATUS_RATE_LIMITED == 429
STATUS_OK == 200
STATUS_LOSS == 503
ERROR_STATUS_MIN == 400

Threads == {"t1", "t2"}

VARIABLES
    now,            \* time.time(), in ticks
    TOKENS_PER_SEC, \* module global, set once
    BURST,          \* module global, set once
    tokens,         \* module global
    last_refill,    \* module global, in ticks
    WINDOW,         \* the deque, oldest sample first
    pc,             \* per thread: where it stands in the code
    req,            \* per thread: the call or request it is serving
    loc,            \* per thread: the local variables of its frames
    nrec,           \* samples appended since WINDOW was last cleared
    wops,           \* the last two operations that changed WINDOW
    obs,            \* the outcomes of the last calls of qos_admit
    acct,           \* tokens granted and credited since start
    epoch,          \* the calls of qos_admit overlapping in time
    trace           \* per thread: what the current request has done

vars == <<now, TOKENS_PER_SEC, BURST, tokens, last_refill, WINDOW, pc, req,
          loc, nrec, wops, obs, acct, epoch, trace>>

cfgVars == <<TOKENS_PER_SEC, BURST>>
bucketVars == <<tokens, last_refill>>
windowVars == <<WINDOW, nrec, wops>>
bucketGhost == <<obs, acct, epoch>>

\* ---------------------------------------------------------------- helpers
Min(a, b) == IF a < b THEN a ELSE b
Max(a, b) == IF a > b THEN a ELSE b

\* Python's int() of the quotient n/d (d > 0): truncation toward zero.
py_int_div(n, d) == IF n >= 0 THEN n \div d ELSE -((-n) \div d)

NoReq == [op |-> "none", ms |-> 0, draw |-> FALSE, endpoint |-> "",
          duration_ms |-> 0, status |-> 0]

NoLoc == [t |-> 0, add |-> 0, tmp |-> 0, seen |-> 0, allowed |-> FALSE,
          retry_after |-> 0, t0 |-> 0, wake |-> 0, data |-> <<>>,
          status |-> 0, result |-> [kind |-> "none"]]

NoTrace == [recorded |-> 0, worked |-> FALSE, done |-> FALSE,
            admitted |-> "none",
            status |-> 0, atCopy |-> <<>>, readAt |-> 0]

NoObs == [lastAt |-> -1, lastOutcome |-> "none", lastRetry |-> 0,
          prevAt |-> -1, prevOutcome |-> "none", prevBurstCalls |-> 0,
          burstAt |-> -1, burstCalls |-> 0]

NoOps == [last |-> "none", before |-> 0, prev |-> "none", prevBefore |-> 0]

NoEpoch == [M |-> 0, L |-> 0, calls |-> 0, allowed |-> 0, denied |-> 0,
            refilled |-> FALSE]

AllIdle == \A th \in Threads : pc[th] = "idle"

\* ------------------------------------------------------------------ Init
\* Module import: tokens = BURST, last_refill = time.time(), WINDOW empty.
InitWith(rates, bursts) ==
    /\ now = 0
    /\ TOKENS_PER_SEC \in rates
    /\ BURST \in bursts
    /\ tokens = BURST
    /\ last_refill = now
    /\ WINDOW = <<>>
    /\ pc = [th \in Threads |-> "idle"]
    /\ req = [th \in Threads |-> NoReq]
    /\ loc = [th \in Threads |-> NoLoc]
    /\ nrec = 0
    /\ wops = NoOps
    /\ obs = NoObs
    /\ acct = [granted |-> 0, credited |-> 0, since |-> -1, sinceGranted |-> 0]
    /\ epoch = NoEpoch
    /\ trace = [th \in Threads |-> NoTrace]

\* The clock advances by one tick, up to the last tick max.
Tick(max) ==
    /\ now < max
    /\ now' = now + 1
    /\ UNCHANGED <<cfgVars, bucketVars, windowVars, pc, req, loc, bucketGhost,
                   trace>>

\* ---------------------------------------------------------- token bucket
refill_add_at_least_one(t, last, rate) ==
    IF t > last THEN Max(1, py_int_div((t - last) * rate, TicksPerSec)) ELSE 0

refill_add_whole_seconds(t, last, rate) ==
    py_int_div(t - last, TicksPerSec) * rate

refill_add_rounds_up(t, last, rate) ==
    py_int_div((t - last) * rate + TicksPerSec - 1, TicksPerSec)

\* refill_tokens, line 25: add = int(elapsed * TOKENS_PER_SEC), with
\* elapsed = (t - last) / TicksPerSec seconds.
refill_add(t, last, rate) == py_int_div((t - last) * rate, TicksPerSec)

refill_cap_unbounded(burst, sum) == sum

\* refill_tokens, line 27: min(BURST, tokens + add).
refill_cap(burst, sum) == Min(burst, sum)

admit_test_keeps_one(tok) == tok > 1

\* qos_admit, line 34: the test that grants a token.
admit_test(tok) == tok > 0

\* qos_admit, line 37: the retry-after of a denial.
admit_retry_after == RETRY_AFTER

\* A caller enters qos_admit() (line 33) directly.
call_qos_admit(th) ==
    /\ pc[th] = "idle"
    /\ AllIdle \/ epoch.calls < MaxEpochCalls
    /\ pc' = [pc EXCEPT ![th] = "refill_t"]
    /\ req' = [req EXCEPT ![th] = [NoReq EXCEPT !.op = "qos_admit"]]
    /\ epoch' = IF AllIdle
                THEN [NoEpoch EXCEPT !.M = tokens, !.L = last_refill, !.calls = 1]
                ELSE [epoch EXCEPT !.calls = @ + 1]
    /\ UNCHANGED <<now, cfgVars, bucketVars, windowVars, loc, obs, acct, trace>>

\* refill_tokens, line 23: t = time.time().
refill_tokens_t(th) ==
    /\ pc[th] = "refill_t"
    /\ loc' = [loc EXCEPT ![th].t = now]
    /\ pc' = [pc EXCEPT ![th] = "refill_add"]
    /\ UNCHANGED <<now, cfgVars, bucketVars, windowVars, req, bucketGhost, trace>>

refill_tokens_add_always_stamps(th) ==
    /\ pc[th] = "refill_add"
    /\ LET add == refill_add(loc[th].t, last_refill, TOKENS_PER_SEC) IN
        /\ loc' = [loc EXCEPT ![th].add = add]
        /\ pc' = [pc EXCEPT ![th] = IF add > 0 THEN "refill_load" ELSE "admit_test"]
        /\ last_refill' = IF add > 0 THEN last_refill ELSE loc[th].t
    /\ UNCHANGED <<now, cfgVars, tokens, windowVars, req, bucketGhost, trace>>

\* refill_tokens, lines 24-26: elapsed and add from last_refill; the branch.
refill_tokens_add(th) ==
    /\ pc[th] = "refill_add"
    /\ LET add == refill_add(loc[th].t, last_refill, TOKENS_PER_SEC) IN
        /\ loc' = [loc EXCEPT ![th].add = add]
        /\ pc' = [pc EXCEPT ![th] = IF add > 0 THEN "refill_load" ELSE "admit_test"]
    /\ UNCHANGED <<now, cfgVars, bucketVars, windowVars, req, bucketGhost, trace>>

\* refill_tokens, line 27, right-hand side: tokens + add is read.
refill_tokens_load(th) ==
    /\ pc[th] = "refill_load"
    /\ loc' = [loc EXCEPT ![th].tmp = tokens + loc[th].add]
    /\ pc' = [pc EXCEPT ![th] = "refill_store"]
    /\ UNCHANGED <<now, cfgVars, bucketVars, windowVars, req, bucketGhost, trace>>

\* refill_tokens, line 27, the store: tokens = min(BURST, tokens + add).
refill_tokens_store(th) ==
    /\ pc[th] = "refill_store"
    /\ tokens' = refill_cap(BURST, loc[th].tmp)
    /\ acct' = [acct EXCEPT !.credited =
                   @ + (refill_cap(BURST, loc[th].tmp) - (loc[th].tmp - loc[th].add))]
    /\ epoch' = [epoch EXCEPT !.refilled = TRUE]
    /\ pc' = [pc EXCEPT ![th] = "refill_last"]
    /\ UNCHANGED <<now, cfgVars, last_refill, windowVars, req, loc, obs, trace>>

\* refill_tokens, line 28: last_refill = t.
refill_tokens_last(th) ==
    /\ pc[th] = "refill_last"
    /\ last_refill' = loc[th].t
    /\ pc' = [pc EXCEPT ![th] = "admit_test"]
    /\ UNCHANGED <<now, cfgVars, tokens, windowVars, req, loc, bucketGhost, trace>>

\* What the outcome of a call of qos_admit at time t, which saw `seen`
\* tokens after its refill, adds to the record of the last calls.
observe(o, t, seen, burst, allowed, retry) ==
    [lastAt |-> t,
     lastOutcome |-> IF allowed THEN "Allowed" ELSE "Denied",
     lastRetry |-> retry,
     prevAt |-> o.lastAt,
     prevOutcome |-> o.lastOutcome,
     prevBurstCalls |-> IF o.burstAt = o.lastAt THEN o.burstCalls ELSE 0,
     burstAt |-> IF seen = burst THEN t
                 ELSE IF o.burstAt = t THEN t ELSE -1,
     burstCalls |-> IF seen = burst THEN 1
                    ELSE IF o.burstAt = t THEN Min(o.burstCalls + 1, burst + 2)
                    ELSE 0]

after_admit_skips_work(op, allowed) ==
    CASE op = "qos_admit" -> "idle"
      [] op = "/slow" -> IF allowed THEN "after_request" ELSE "slow_denied"
      [] op = "/loss" -> IF allowed THEN "after_request" ELSE "loss_denied"
      [] OTHER -> "idle"

after_admit_ignores_denial(op, allowed) ==
    CASE op = "qos_admit" -> "idle"
      [] op = "/slow" -> "slow_work"
      [] op = "/loss" -> "loss_work"
      [] OTHER -> "idle"

\* Where the caller of qos_admit goes on once it has returned (lines 156-157
\* of slow, 168-169 of loss).
after_admit(op, allowed) ==
    CASE op = "qos_admit" -> "idle"
      [] op = "/slow" -> IF allowed THEN "slow_work" ELSE "slow_denied"
      [] op = "/loss" -> IF allowed THEN "loss_work" ELSE "loss_denied"
      [] OTHER -> "idle"

\* qos_admit returns (allowed, retry) to its caller.
admit_return(th, allowed, retry, seen) ==
    /\ pc' = [pc EXCEPT ![th] = after_admit(req[th].op, allowed)]
    /\ IF req[th].op = "qos_admit"
       THEN /\ loc' = [loc EXCEPT ![th] = NoLoc]
            /\ req' = [req EXCEPT ![th] = NoReq]
            /\ trace' = trace
       ELSE /\ loc' = [loc EXCEPT ![th].allowed = allowed,
                                  ![th].retry_after = retry]
            /\ req' = req
            /\ trace' = [trace EXCEPT ![th].admitted =
                            IF allowed THEN "Allowed" ELSE "Denied"]
    /\ obs' = observe(obs, loc[th].t, seen, BURST, allowed, retry)
    /\ acct' = [acct EXCEPT !.granted = IF allowed THEN @ + 1 ELSE @,
                            !.sinceGranted =
                                IF allowed /\ acct.since >= 0 THEN @ + 1 ELSE @]
    /\ epoch' = [epoch EXCEPT !.allowed = IF allowed THEN @ + 1 ELSE @,
                              !.denied = IF allowed THEN @ ELSE @ + 1]

\* qos_admit, line 34: if tokens > 0; line 37 when it is not.
qos_admit_test(th) ==
    /\ pc[th] = "admit_test"
    /\ IF admit_test(tokens)
       THEN /\ pc' = [pc EXCEPT ![th] = "admit_load"]
            /\ loc' = [loc EXCEPT ![th].seen = tokens]
            /\ UNCHANGED <<req, bucketGhost, trace>>
       ELSE admit_return(th, FALSE, admit_retry_after, tokens)
    /\ UNCHANGED <<now, cfgVars, bucketVars, windowVars>>

qos_admit_load_two(th) ==
    /\ pc[th] = "admit_load"
    /\ loc' = [loc EXCEPT ![th].tmp = tokens - 2]
    /\ pc' = [pc EXCEPT ![th] = "admit_store"]
    /\ UNCHANGED <<now, cfgVars, bucketVars, windowVars, req, bucketGhost, trace>>

\* qos_admit, line 35, right-hand side: tokens - 1 is read.
qos_admit_load(th) ==
    /\ pc[th] = "admit_load"
    /\ loc' = [loc EXCEPT ![th].tmp = tokens - 1]
    /\ pc' = [pc EXCEPT ![th] = "admit_store"]
    /\ UNCHANGED <<now, cfgVars, bucketVars, windowVars, req, bucketGhost, trace>>

\* qos_admit, lines 35-36: the store tokens -= 1, and return (True, 0).
qos_admit_store(th) ==
    /\ pc[th] = "admit_store"
    /\ tokens' = loc[th].tmp
    /\ admit_return(th, TRUE, 0, loc[th].seen)
    /\ UNCHANGED <<now, cfgVars, last_refill, windowVars>>

\* The steps of refill_tokens and qos_admit of one thread.
admit_steps(th) ==
    \/ refill_tokens_t(th)
    \/ refill_tokens_add(th)
    \/ refill_tokens_load(th)
    \/ refill_tokens_store(th)
    \/ refill_tokens_last(th)
    \/ qos_admit_test(th)
    \/ qos_admit_load(th)
    \/ qos_admit_store(th)

\* ------------------------------------------------- sequential token bucket
\* One caller at a time calls qos_admit(); the clock runs between and
\* during the calls.
BucketRates == {0, 1, DEFAULT_TOKENS_PER_SEC}
BucketBursts == {1, 3, DEFAULT_BURST}

BucketInit == InitWith(BucketRates, BucketBursts)

BucketNext ==
    \/ Tick(MaxTime)
    \/ call_qos_admit("t1")
    \/ admit_steps("t1")

SpecBucket == BucketInit /\ [][BucketNext]_vars

\* ------------------------------------------- the rate of admissions
\* The callers of qos_admit() start counting the calls it allows: the count
\* covers the calls made from this reading of the clock on. One interval is
\* counted in a behaviour, started between two calls at any time.
start_interval ==
    /\ AllIdle
    /\ acct.since = -1
    /\ acct' = [acct EXCEPT !.since = now, !.sinceGranted = 0]
    /\ UNCHANGED <<now, cfgVars, bucketVars, windowVars, pc, req, loc, obs,
                   epoch, trace>>

RateNext ==
    \/ BucketNext
    \/ start_interval

SpecRate == BucketInit /\ [][RateNext]_vars

\* ------------------------------------------------- concurrent token bucket
\* Several threads call qos_admit() at once, as the threaded server does for
\* overlapping requests; the program's own configuration.
RaceInit == InitWith({DEFAULT_TOKENS_PER_SEC}, {DEFAULT_BURST})

RaceNext ==
    \/ Tick(RaceMaxTime)
    \/ \E th \in Threads : call_qos_admit(th)
    \/ \E th \in Threads : admit_steps(th)

SpecRace == RaceInit /\ [][RaceNext]_vars


\* ---------------------------------------------------------------- window
\* The inputs of record() the window specifications draw from.
RecordInputs == {<<"/slow", 10, STATUS_OK>>, <<"/loss", 30, STATUS_LOSS>>}

deque_append_drop_newest(w, x, maxlen) ==
    IF Len(w) >= maxlen THEN Append(SubSeq(w, 1, Len(w) - 1), x) ELSE Append(w, x)

deque_append_unbounded(w, x, maxlen) == Append(w, x)

\* WINDOW = deque(maxlen=...), line 10, and its append: a full deque drops
\* its oldest element as the new one is appended.
deque_append(w, x, maxlen) ==
    IF maxlen = 0 THEN <<>>
    ELSE IF Len(w) >= maxlen THEN Append(Tail(w), x)
    ELSE Append(w, x)

deque_clear_keeps_newest(w) == IF Len(w) > 1 THEN <<w[Len(w)]>> ELSE <<>>

\* WINDOW.clear(), line 185.
deque_clear(w) == <<>>

\* The tuple record() appends, line 40; id is the ordinal of the append since
\* the window was last cleared and only identifies the sample.
sample(t, endpoint, duration_ms, status, id) ==
    [t |-> t, endpoint |-> endpoint, duration_ms |-> duration_ms,
     status |-> status, id |-> id]

\* record(endpoint, duration_ms, status), lines 39-40.
record(endpoint, duration_ms, status) ==
    /\ WINDOW' = deque_append(WINDOW,
                     sample(now, endpoint, duration_ms, status, nrec + 1),
                     WINDOW_MAXLEN)
    /\ nrec' = nrec + 1
    /\ wops' = [last |-> "record", before |-> Len(WINDOW),
                prev |-> wops.last, prevBefore |-> wops.before]

\* A caller calls record() directly.
call_record(th, endpoint, duration_ms, status) ==
    /\ pc[th] = "idle"
    /\ nrec < WINDOW_MAXLEN + MaxExtra
    /\ record(endpoint, duration_ms, status)
    /\ UNCHANGED <<now, cfgVars, bucketVars, pc, req, loc, bucketGhost, trace>>

\* WINDOW.clear() of qos_reset, line 185.
window_clear ==
    /\ WINDOW' = deque_clear(WINDOW)
    /\ nrec' = 0
    /\ wops' = [last |-> "clear", before |-> Len(WINDOW),
                prev |-> wops.last, prevBefore |-> wops.before]

\* A caller clears the window directly.
call_clear(th) ==
    /\ pc[th] = "idle"
    /\ window_clear
    /\ UNCHANGED <<now, cfgVars, bucketVars, pc, req, loc, bucketGhost, trace>>

\* ------------------------------------------------------- compute_metrics
RECURSIVE insert_sorted(_, _)
insert_sorted(s, x) ==
    IF s = <<>> THEN <<x>>
    ELSE IF x < Head(s) THEN <<x>> \o s
    ELSE <<Head(s)>> \o insert_sorted(Tail(s), x)

sorted_keeps_order(s) == s

\* sorted(...), line 47: ascending, stable.
RECURSIVE sorted(_)
sorted(s) == IF s = <<>> THEN <<>> ELSE insert_sorted(sorted(SubSeq(s, 1, Len(s) - 1)), s[Len(s)])

RECURSIVE sum(_)
sum(s) == IF s = <<>> THEN 0 ELSE Head(s) + sum(Tail(s))

\* Python's round() of the quotient n/d (n >= 0, d > 0): to the nearest
\* integer, a tie to the even one.
py_round_div(n, d) ==
    LET q == n \div d
        r == n % d
    IN  IF 2 * r < d THEN q
        ELSE IF 2 * r > d THEN q + 1
        ELSE IF q % 2 = 0 THEN q ELSE q + 1

pct_floor(durations, p) ==
    LET idx == (p * (Len(durations) - 1)) \div 100
    IN  durations[Max(0, Min(idx, Len(durations) - 1)) + 1]

\* pct(p), lines 57-59, on the sorted durations.
pct(durations, p) ==
    LET idx == py_round_div(p * (Len(durations) - 1), 100)
    IN  durations[Max(0, Min(idx, Len(durations) - 1)) + 1]

diffs_from_second(durations) ==
    [i \in 1..(Len(durations) - 2) |->
        IF durations[i + 2] >= durations[i + 1]
        THEN durations[i + 2] - durations[i + 1]
        ELSE durations[i + 1] - durations[i + 2]]

\* diffs, line 62.
diffs(durations) ==
    [i \in 1..(Len(durations) - 1) |->
        IF durations[i + 1] >= durations[i] THEN durations[i + 1] - durations[i]
        ELSE durations[i] - durations[i + 1]]

is_error_above(status) == status > ERROR_STATUS_MIN

\* The test of line 48: d[3] >= 400.
is_error(status) == status >= ERROR_STATUS_MIN

metrics_source_live(data, window) == window

\* Lines 47-54 read the copy `data`, never WINDOW itself.
metrics_source(data, window) == data

\* Lines 47-80 of compute_metrics on a sequence of samples, the clock
\* reading t (line 53) and the policy constants. Fractions are kept as
\* integers: error_rate in 1/10^4, rps in 1/10^3, jitter in 1/10^2.
metrics_payload(src, t, rate, burst) ==
    IF Len(src) = 0
    THEN [kind |-> "ZeroDivisionError"]
    ELSE
    LET durations == sorted([i \in 1..Len(src) |-> src[i].duration_ms])
        errors == Cardinality({i \in 1..Len(src) : is_error(src[i].status)})
        total == Len(src)
        cutoff == t - 60 * TicksPerSec
        last60 == Cardinality({i \in 1..Len(src) : src[i].t >= cutoff})
        d == diffs(durations)
    IN  [kind |-> "metrics",
         count |-> total,
         error_rate |-> py_round_div(errors * 10000, total),
         rps_last_60s |-> py_round_div(last60 * 1000, 60),
         p50 |-> pct(durations, 50),
         p90 |-> pct(durations, 90),
         p95 |-> pct(durations, 95),
         p99 |-> pct(durations, 99),
         max |-> durations[Len(durations)],
         jitter_ms_avg_absdiff |->
             IF Len(d) > 0 THEN py_round_div(sum(d) * 100, Len(d)) ELSE 0,
         tokens_per_sec |-> rate,
         burst |-> burst]

compute_metrics_unguarded(data, window, t, rate, burst) ==
    metrics_payload(metrics_source(data, window), t, rate, burst)

\* compute_metrics, lines 45-80, once data = list(WINDOW) has been taken:
\* {} when the copy is empty, the payload otherwise.
compute_metrics_result(data, window, t, rate, burst) ==
    IF data = <<>> THEN [kind |-> "empty"]
    ELSE metrics_payload(metrics_source(data, window), t, rate, burst)

\* A caller calls compute_metrics() directly.
call_compute_metrics(th) ==
    /\ pc[th] = "idle"
    /\ pc' = [pc EXCEPT ![th] = "cm_copy"]
    /\ req' = [req EXCEPT ![th] = [NoReq EXCEPT !.op = "compute_metrics"]]
    /\ trace' = [trace EXCEPT ![th] = NoTrace]
    /\ UNCHANGED <<now, cfgVars, bucketVars, windowVars, loc, bucketGhost>>

\* compute_metrics, line 44: data = list(WINDOW).
compute_metrics_copy(th) ==
    /\ pc[th] = "cm_copy"
    /\ loc' = [loc EXCEPT ![th].data = WINDOW]
    /\ trace' = [trace EXCEPT ![th].atCopy = WINDOW]
    /\ pc' = [pc EXCEPT ![th] = "cm_rest"]
    /\ UNCHANGED <<now, cfgVars, bucketVars, windowVars, req, bucketGhost>>

\* compute_metrics, lines 45-80: the statistics and the returned object.
compute_metrics_rest(th) ==
    /\ pc[th] = "cm_rest"
    /\ loc' = [loc EXCEPT ![th].result =
                  compute_metrics_result(loc[th].data, WINDOW, now,
                                         TOKENS_PER_SEC, BURST)]
    /\ trace' = [trace EXCEPT ![th].readAt = now]
    /\ pc' = [pc EXCEPT ![th] = "cm_return"]
    /\ UNCHANGED <<now, cfgVars, bucketVars, windowVars, req, bucketGhost>>

\* compute_metrics returns to its caller: the direct caller is done, the
\* view qos (line 181) hands the object to jsonify.
compute_metrics_return(th) ==
    /\ pc[th] = "cm_return"
    /\ IF req[th].op = "compute_metrics"
       THEN /\ pc' = [pc EXCEPT ![th] = "idle"]
            /\ loc' = [loc EXCEPT ![th] = NoLoc]
            /\ req' = [req EXCEPT ![th] = NoReq]
            /\ trace' = [trace EXCEPT ![th] = NoTrace]
       ELSE /\ pc' = [pc EXCEPT ![th] = "after_request"]
            /\ loc' = [loc EXCEPT ![th].status = STATUS_OK,
                                  ![th].data = <<>>,
                                  ![th].result = [kind |-> "none"]]
            /\ req' = req
            /\ trace' = [trace EXCEPT ![th].atCopy = <<>>, ![th].readAt = 0]
    /\ UNCHANGED <<now, cfgVars, bucketVars, windowVars, bucketGhost>>

metrics_steps(th) ==
    \/ compute_metrics_copy(th)
    \/ compute_metrics_rest(th)
    \/ compute_metrics_return(th)

\* ------------------------------------------------- the metrics window alone
\* Thread t1 calls compute_metrics() while thread t2 calls record() and
\* WINDOW.clear() in any order, between any two steps of t1; the clock stands
\* still. record() and clear() are single steps that leave nothing in their
\* caller, and snapshots only read, so more threads add no interleaving.
WindowInit == InitWith({DEFAULT_TOKENS_PER_SEC}, {DEFAULT_BURST})

WindowNext ==
    \/ \E in \in RecordInputs : call_record("t2", in[1], in[2], in[3])
    \/ call_clear("t2")
    \/ call_compute_metrics("t1")
    \/ metrics_steps("t1")

SpecWindow == WindowInit /\ [][WindowNext]_vars

\* -------------------------------------------------- the statistics alone
\* What one caller records when it fills the window and then reads the
\* statistics: durations that are all different, and statuses on both sides
\* of the error threshold of line 48.
StatsInputs ==
    {<<"/slow", 10, STATUS_OK>>, <<"/slow", 20, 404>>,
     <<"/slow", 30, ERROR_STATUS_MIN>>, <<"/loss", 40, 500>>,
     <<"/loss", 50, ERROR_STATUS_MIN - 1>>}

\* One thread records, clears and calls compute_metrics() one call after the
\* other; the clock stands still.
StatsInit == InitWith({DEFAULT_TOKENS_PER_SEC}, {DEFAULT_BURST})

StatsNext ==
    \/ \E in \in StatsInputs : call_record("t1", in[1], in[2], in[3])
    \/ call_clear("t1")
    \/ call_compute_metrics("t1")
    \/ metrics_steps("t1")

SpecStats == StatsInit /\ [][StatsNext]_vars

\* ------------------------------------------------------- the request flow
\* The paths served and the ?ms= values of /slow the request-flow
\* specification draws from.
HttpPaths == {"/slow", "/loss", "/qos", "/qos/reset"}
SlowMs == {0, 500}

\* The first step of the view a path is routed to (lines 154, 166, 179, 183).
view_entry(path) ==
    CASE path = "/slow" -> "refill_t"
      [] path = "/loss" -> "refill_t"
      [] path = "/qos" -> "cm_copy"
      [] path = "/qos/reset" -> "reset_clear"

\* time.sleep(ms / 1000), line 163: the tick at which a sleep begun at t ends.
sleep_until(t, ms) == t + ((ms * TicksPerSec + 999) \div 1000)

\* end_timer, line 88: int((time.time() - _t0) * 1000).
elapsed_ms(t, t0) == py_int_div((t - t0) * 1000, TicksPerSec)

\* A request arrives: start_timer (lines 82-84) stores _t0, and the view of
\* the path is entered (qos_admit is the first thing slow and loss call).
\* Once HttpMaxRecords samples were recorded since the last clear, the next
\* request served is a /qos/reset.
http_request(th, path, ms) ==
    /\ pc[th] = "idle"
    /\ path # "/qos/reset" => nrec < HttpMaxRecords
    /\ path \in {"/slow", "/loss"} => (AllIdle \/ epoch.calls < MaxEpochCalls)
    /\ pc' = [pc EXCEPT ![th] = view_entry(path)]
    /\ req' = [req EXCEPT ![th] = [NoReq EXCEPT !.op = path, !.ms = ms]]
    /\ loc' = [loc EXCEPT ![th] = [NoLoc EXCEPT !.t0 = now]]
    /\ trace' = [trace EXCEPT ![th] = NoTrace]
    /\ epoch' = IF path \in {"/slow", "/loss"}
                THEN IF AllIdle
                     THEN [NoEpoch EXCEPT !.M = tokens, !.L = last_refill, !.calls = 1]
                     ELSE [epoch EXCEPT !.calls = @ + 1]
                ELSE epoch
    /\ UNCHANGED <<now, cfgVars, bucketVars, windowVars, obs, acct>>

\* slow, lines 157-160: the 429 response of a denied request.
slow_denied(th) ==
    /\ pc[th] = "slow_denied"
    /\ loc' = [loc EXCEPT ![th].status = STATUS_RATE_LIMITED]
    /\ pc' = [pc EXCEPT ![th] = "after_request"]
    /\ UNCHANGED <<now, cfgVars, bucketVars, windowVars, req, bucketGhost, trace>>

\* slow, lines 162-163: ms is parsed and time.sleep begins.
slow_work(th) ==
    /\ pc[th] = "slow_work"
    /\ loc' = [loc EXCEPT ![th].wake = sleep_until(now, req[th].ms)]
    /\ trace' = [trace EXCEPT ![th].worked = TRUE]
    /\ pc' = [pc EXCEPT ![th] = "slow_sleep"]
    /\ UNCHANGED <<now, cfgVars, bucketVars, windowVars, req, bucketGhost>>

\* slow, lines 163-164: time.sleep returns and the 200 response is made.
slow_sleep(th) ==
    /\ pc[th] = "slow_sleep"
    /\ now >= loc[th].wake
    /\ loc' = [loc EXCEPT ![th].status = STATUS_OK]
    /\ trace' = [trace EXCEPT ![th].done = TRUE]
    /\ pc' = [pc EXCEPT ![th] = "after_request"]
    /\ UNCHANGED <<now, cfgVars, bucketVars, windowVars, req, bucketGhost>>

\* loss, lines 169-172: the 429 response of a denied request.
loss_denied(th) ==
    /\ pc[th] = "loss_denied"
    /\ loc' = [loc EXCEPT ![th].status = STATUS_RATE_LIMITED]
    /\ pc' = [pc EXCEPT ![th] = "after_request"]
    /\ UNCHANGED <<now, cfgVars, bucketVars, windowVars, req, bucketGhost, trace>>

\* loss, lines 174-177: the draw random.random() < p and its response.
loss_work(th) ==
    /\ pc[th] = "loss_work"
    /\ \E hit \in BOOLEAN :
          loc' = [loc EXCEPT ![th].status = IF hit THEN STATUS_LOSS ELSE STATUS_OK]
    /\ trace' = [trace EXCEPT ![th].worked = TRUE, ![th].done = TRUE]
    /\ pc' = [pc EXCEPT ![th] = "after_request"]
    /\ UNCHANGED <<now, cfgVars, bucketVars, windowVars, req, bucketGhost>>

\* qos_reset, lines 185-186: WINDOW.clear() and the 200 response.
qos_reset(th) ==
    /\ pc[th] = "reset_clear"
    /\ window_clear
    /\ loc' = [loc EXCEPT ![th].status = STATUS_OK]
    /\ pc' = [pc EXCEPT ![th] = "after_request"]
    /\ UNCHANGED <<now, cfgVars, bucketVars, req, bucketGhost, trace>>

\* end_timer, lines 86-94: every response is recorded, whatever its status.
end_timer(th) ==
    /\ pc[th] = "after_request"
    /\ record(req[th].op, elapsed_ms(now, loc[th].t0), loc[th].status)
    /\ trace' = [trace EXCEPT ![th].recorded = @ + 1,
                              ![th].status = loc[th].status]
    /\ pc' = [pc EXCEPT ![th] = "idle"]
    /\ loc' = [loc EXCEPT ![th] = NoLoc]
    /\ req' = [req EXCEPT ![th] = NoReq]
    /\ UNCHANGED <<now, cfgVars, bucketVars, bucketGhost>>

view_steps(th) ==
    \/ slow_denied(th)
    \/ slow_work(th)
    \/ slow_sleep(th)
    \/ loss_denied(th)
    \/ loss_work(th)
    \/ qos_reset(th)
    \/ end_timer(th)

\* One request at a time is served from arrival to response; the clock runs
\* between and during the requests.
HttpInit == InitWith({DEFAULT_TOKENS_PER_SEC}, {DEFAULT_BURST})

HttpNext ==
    \/ Tick(HttpMaxTime)
    \/ \E path \in HttpPaths, ms \in SlowMs : http_request("t1", path, ms)
    \/ admit_steps("t1")
    \/ metrics_steps("t1")
    \/ view_steps("t1")

SpecHttp == HttpInit /\ [][HttpNext]_vars

\* ================================================================ claims

\* C1: when the callers of an epoch (calls of qos_admit overlapping in time,
\* started against M tokens) have all returned and no refill was stored
\* meanwhile, exactly min(N, M) of the N callers were Allowed and the others
\* Denied.
C1_ConcurrentAdmission ==
    (AllIdle /\ ~epoch.refilled) =>
        /\ epoch.allowed = Min(epoch.calls, epoch.M)
        /\ epoch.denied = epoch.calls - epoch.allowed

\* C2: 0 <= tokens <= BURST in every state of a sequence of qos_admit calls
\* separated by arbitrary elapsed times.
C2_BucketBounds == 0 <= tokens /\ tokens <= BURST

\* C2 witness: a refill that had to be capped (tokens + add > BURST) after
\* tokens had been granted.
C2_Witness ==
    /\ pc["t1"] = "refill_last"
    /\ loc["t1"].tmp > BURST
    /\ tokens = BURST
    /\ acct.granted > 0

\* C4: of the calls made at one instant from a full bucket, the first BURST
\* are Allowed and the next one is Denied with retry-after 1; a call made at
\* least one second after a Denied call is Allowed (TOKENS_PER_SEC >= 1).
C4_StarvationRecovery ==
    /\ (obs.burstAt = obs.lastAt /\ obs.burstCalls \in 1..BURST)
          => obs.lastOutcome = "Allowed"
    /\ (obs.burstAt = obs.lastAt /\ obs.burstCalls = BURST + 1)
          => (obs.lastOutcome = "Denied" /\ obs.lastRetry = 1)
    /\ (obs.prevOutcome = "Denied" /\ obs.lastAt - obs.prevAt >= TicksPerSec
          /\ TOKENS_PER_SEC >= 1)
          => obs.lastOutcome = "Allowed"

\* C4 witness: with the program's configuration, the call after the Denied
\* 11th call of a burst, made a second or more later, is Allowed.
C4_Witness ==
    /\ BURST = DEFAULT_BURST
    /\ TOKENS_PER_SEC = DEFAULT_TOKENS_PER_SEC
    /\ obs.prevOutcome = "Denied"
    /\ obs.prevBurstCalls = BURST + 1
    /\ obs.lastAt - obs.prevAt >= TicksPerSec
    /\ obs.lastOutcome = "Allowed"

\* C5: refill and decrement act as one critical section: once all callers
\* have returned, the bucket holds what a serial execution leaves, that is
\* BURST plus the tokens credited minus the tokens granted, never a negative
\* number, and no more was credited than the elapsed time accrues.
C5_AtomicSection ==
    AllIdle =>
        /\ tokens = BURST + acct.credited - acct.granted
        /\ tokens >= 0
        /\ acct.credited <= refill_add(now, 0, TOKENS_PER_SEC)

\* C3 as stated: a request whose admission was Denied ends with no sample
\* appended for it and no simulated work done.
C3_DeniedNoSample ==
    \A th \in Threads :
        (trace[th].admitted = "Denied" /\ pc[th] = "idle") =>
            (trace[th].recorded = 0 /\ ~trace[th].worked)

\* C3 amended: a request whose admission was Denied does no simulated work
\* (no sleep, no loss draw), and when it ends exactly one sample, of status
\* 429, has been appended for it by end_timer.
C3_DeniedRecordedNoWork ==
    \A th \in Threads :
        trace[th].admitted = "Denied" =>
            /\ ~trace[th].worked
            /\ pc[th] = "idle" =>
                  (trace[th].recorded = 1 /\ trace[th].status = STATUS_RATE_LIMITED)
            /\ pc[th] # "idle" => trace[th].recorded = 0

\* C3 witness: a denied request has ended and its 429 sample is the newest
\* of the window.
C3_Witness ==
    /\ pc["t1"] = "idle"
    /\ trace["t1"].admitted = "Denied"
    /\ trace["t1"].recorded = 1
    /\ Len(WINDOW) > 0
    /\ WINDOW[Len(WINDOW)].status = STATUS_RATE_LIMITED

\* C6: after n samples recorded into an empty window, the window holds the
\* last min(n, capacity) of them in the order they were recorded.
C6_WindowEviction ==
    /\ Len(WINDOW) = Min(nrec, WINDOW_MAXLEN)
    /\ \A i \in 1..Len(WINDOW) : WINDOW[i].id = nrec - Len(WINDOW) + i

\* C6 witness: capacity + MaxExtra samples were recorded; the oldest kept is
\* the one recorded after the first MaxExtra.
C6_Witness ==
    /\ nrec = WINDOW_MAXLEN + MaxExtra
    /\ Len(WINDOW) = WINDOW_MAXLEN
    /\ WINDOW[1].id = MaxExtra + 1

\* C7: the window never holds more samples than its capacity.
C7_WindowBound == Len(WINDOW) <= WINDOW_MAXLEN

\* C7 witness: a record into the full window, made while a snapshot is under
\* way, left the window at its capacity.
C7_Witness ==
    /\ Len(WINDOW) = WINDOW_MAXLEN
    /\ nrec > WINDOW_MAXLEN
    /\ wops.last = "record"
    /\ pc["t1"] = "cm_rest"

\* C8: what compute_metrics returns is, in every field, the statistics of
\* the one content WINDOW had when it was copied, and that content is a whole
\* window: at most capacity samples, consecutively recorded.
C8_SnapshotConsistency ==
    \A th \in Threads :
        pc[th] = "cm_return" =>
            LET w == trace[th].atCopy IN
            /\ loc[th].result =
                  compute_metrics_result(w, w, trace[th].readAt, TOKENS_PER_SEC, BURST)
            /\ Len(w) <= WINDOW_MAXLEN
            /\ \A i \in 1..Len(w) : w[i].id = w[1].id + i - 1

\* C8 witness: a snapshot of a full window returns its metrics after the
\* window was changed under it.
C8_Witness ==
    /\ pc["t1"] = "cm_return"
    /\ loc["t1"].result.kind = "metrics"
    /\ Len(trace["t1"].atCopy) = WINDOW_MAXLEN
    /\ WINDOW # trace["t1"].atCopy

\* C9: compute_metrics returns the empty object exactly when the window it
\* copied was empty, the metrics otherwise, and never fails.
C9_EmptySnapshot ==
    \A th \in Threads :
        pc[th] = "cm_return" =>
            /\ loc[th].result.kind \in {"empty", "metrics"}
            /\ loc[th].result.kind = "empty" <=> trace[th].atCopy = <<>>

\* C9 witness: a snapshot of a window just cleared of its samples returns the
\* empty object.
C9_Witness ==
    /\ pc["t1"] = "cm_return"
    /\ loc["t1"].result.kind = "empty"
    /\ wops.last = "clear"
    /\ wops.before > 0

Durations(w) == [i \in 1..Len(w) |-> w[i].duration_ms]

\* v stands at 0-based index k of the ascending order of d: v occurs in d,
\* at most k elements are smaller and at least k + 1 are not larger.
AtSortedIndex(d, k, v) ==
    /\ \E i \in 1..Len(d) : d[i] = v
    /\ Cardinality({i \in 1..Len(d) : d[i] < v}) <= k
    /\ Cardinality({i \in 1..Len(d) : d[i] <= v}) >= k + 1

\* k is (p/100)*(n-1) rounded to a nearest integer and clamped to 0..n-1.
PercentileIndex(n, p, k) ==
    \E r \in 0..n :
        /\ 100 * r - 50 <= p * (n - 1)
        /\ p * (n - 1) <= 100 * r + 50
        /\ k = Max(0, Min(r, n - 1))

\* The percentile field of a payload.
Reported(r, p) ==
    CASE p = 50 -> r.p50 [] p = 90 -> r.p90 [] p = 95 -> r.p95 [] p = 99 -> r.p99

\* The snapshot thread t1 holds the object compute_metrics() returns for a
\* copy of at least one sample.
SnapshotOfSamples ==
    /\ pc["t1"] = "cm_return"
    /\ trace["t1"].atCopy # <<>>

\* C11: for a non-empty window of total samples and each p in
\* {50, 90, 95, 99} the snapshot reports the element of the ascending
\* durations at index round((p/100)*(total-1)) clamped to [0, total-1], and
\* max is the last element of that order; the durations 10..50 in any order
\* of recording give p50 = 30 and max = 50.
C11_Percentiles ==
    SnapshotOfSamples =>
        LET d == Durations(trace["t1"].atCopy)
            r == loc["t1"].result
        IN  /\ r.kind = "metrics"
            /\ \A p \in {50, 90, 95, 99} :
                   \E k \in 0..(Len(d) - 1) :
                       /\ PercentileIndex(Len(d), p, k)
                       /\ AtSortedIndex(d, k, Reported(r, p))
            /\ AtSortedIndex(d, Len(d) - 1, r.max)
            /\ (Len(d) = 5 /\ {d[i] : i \in 1..5} = {10, 20, 30, 40, 50})
                   => (r.p50 = 30 /\ r.max = 50)

\* The five durations 10..50 were recorded largest first, and the snapshot
\* reports p50 = 30, p90 = 50 and max = 50.
C11_Witness ==
    /\ SnapshotOfSamples
    /\ LET d == Durations(trace["t1"].atCopy)
       IN  /\ Len(d) = 5
           /\ {d[i] : i \in 1..5} = {10, 20, 30, 40, 50}
           /\ d[1] = 50
    /\ loc["t1"].result.p50 = 30
    /\ loc["t1"].result.p90 = 50
    /\ loc["t1"].result.max = 50

\* C12: count is the number of samples and error_rate is the share of the
\* samples whose status is at least 400, rounded to four decimals (kept in
\* 1/10^4): a status of 400 counts, one of 399 does not, and the statuses
\* 200, 404, 200, 500 give 0.5.
C12_ErrorRate ==
    SnapshotOfSamples =>
        LET w == trace["t1"].atCopy
            r == loc["t1"].result
            n == Len(w)
            errors == Cardinality({i \in 1..n : w[i].status > 399})
        IN  /\ r.count = n
            /\ r.error_rate \in 0..10000
            /\ 2 * (r.error_rate * n - 10000 * errors) <= n
            /\ 2 * (10000 * errors - r.error_rate * n) <= n
            /\ (\A i \in 1..n : w[i].status = 400) => r.error_rate = 10000
            /\ (\A i \in 1..n : w[i].status = 399) => r.error_rate = 0
            /\ [i \in 1..n |-> w[i].status] = <<200, 404, 200, 500>>
                   => r.error_rate = 5000

\* One sample of status 400 and two of status 399: count 3, error rate
\* 0.3333.
C12_Witness ==
    /\ SnapshotOfSamples
    /\ LET w == trace["t1"].atCopy
       IN  [i \in 1..Len(w) |-> w[i].status] = <<400, 399, 399>>
    /\ loc["t1"].result.count = 3
    /\ loc["t1"].result.error_rate = 3333

\* The ascending order of d, element by element.
Ascending(d) ==
    [k \in 1..Len(d) |->
        CHOOSE v \in {d[i] : i \in 1..Len(d)} : AtSortedIndex(d, k - 1, v)]

\* The sum of the absolute differences between neighbours of s.
RECURSIVE AbsDiffSum(_)
AbsDiffSum(s) ==
    IF Len(s) < 2 THEN 0
    ELSE (IF s[2] >= s[1] THEN s[2] - s[1] ELSE s[1] - s[2]) + AbsDiffSum(Tail(s))

\* x is the quotient num/den rounded to a nearest integer.
NearestQuotient(x, num, den) ==
    /\ 2 * (x * den - num) <= den
    /\ 2 * (num - x * den) <= den

\* C13: jitter_ms_avg_absdiff is the average of the absolute differences
\* between neighbours of the ascending durations, not of the durations in the
\* order of recording, rounded to two decimals (kept in 1/100); it is 0 for
\* exactly one sample.
C13_Jitter ==
    SnapshotOfSamples =>
        LET d == Durations(trace["t1"].atCopy)
            r == loc["t1"].result
        IN  IF Len(d) = 1 THEN r.jitter_ms_avg_absdiff = 0
            ELSE NearestQuotient(r.jitter_ms_avg_absdiff,
                                 100 * AbsDiffSum(Ascending(d)), Len(d) - 1)

\* Durations recorded as 10, 50, 20: neighbours in that order differ by 40
\* and 30, the ascending ones by 10 and 30, and the snapshot reports 20.00.
C13_Witness ==
    /\ SnapshotOfSamples
    /\ Durations(trace["t1"].atCopy) = <<10, 50, 20>>
    /\ AbsDiffSum(Durations(trace["t1"].atCopy)) = 70
    /\ loc["t1"].result.jitter_ms_avg_absdiff = 2000

\* The largest and the smallest element of d.
Largest(d) == CHOOSE v \in {d[i] : i \in 1..Len(d)} : \A i \in 1..Len(d) : d[i] <= v
Smallest(d) == CHOOSE v \in {d[i] : i \in 1..Len(d)} : \A i \in 1..Len(d) : d[i] >= v

\* C20: for at least two samples the absolute differences between neighbours
\* of the ascending durations add up to max - min, so the reported jitter is
\* (max - min)/(total - 1) rounded to two decimals, whatever the order of
\* recording and the values in between.
C20_JitterIdentity ==
    (SnapshotOfSamples /\ Len(trace["t1"].atCopy) >= 2) =>
        LET d == Durations(trace["t1"].atCopy)
            r == loc["t1"].result
        IN  /\ AbsDiffSum(Ascending(d)) = Largest(d) - Smallest(d)
            /\ r.max = Largest(d)
            /\ NearestQuotient(r.jitter_ms_avg_absdiff,
                               100 * (Largest(d) - Smallest(d)), Len(d) - 1)

\* Durations recorded as 30, 10, 50, 20: the snapshot reports
\* (50 - 10)/3 = 13.33.
C20_Witness ==
    /\ SnapshotOfSamples
    /\ Durations(trace["t1"].atCopy) = <<30, 10, 50, 20>>
    /\ loc["t1"].result.jitter_ms_avg_absdiff = 1333

\* -------------------------------------- claims on the sequential bucket
\* C14: with a rate of 0 the token count never increases, and from the
\* moment it is 0 it stays 0 and no call is Allowed any more, however far
\* the clock advances.
C14_TerminalStarvation ==
    [][TOKENS_PER_SEC = 0 =>
          /\ tokens' <= tokens
          /\ tokens = 0 => (tokens' = 0 /\ acct'.granted = acct.granted)]_vars

\* Rate 0, every token of the burst granted, and the last two calls both
\* Denied, the later one a second or more after the earlier and two seconds
\* or more after the start.
C14_Witness ==
    /\ TOKENS_PER_SEC = 0
    /\ tokens = 0
    /\ acct.granted = BURST
    /\ obs.prevOutcome = "Denied"
    /\ obs.lastOutcome = "Denied"
    /\ obs.lastAt >= obs.prevAt + TicksPerSec
    /\ obs.lastAt >= 2 * TicksPerSec

\* The direct caller t1 has finished refill_tokens() and stands before the
\* test of line 34; epoch.M and epoch.L are tokens and last_refill as the
\* call found them.
AfterRefill ==
    /\ pc["t1"] = "admit_test"
    /\ req["t1"].op = "qos_admit"

\* C15: refill at the clock reading t computes add = floor((t - t_last) * R);
\* if add > 0 it sets tokens = min(B, tokens + add) and t_last = t, and if
\* add = 0 it leaves both as they were, so t_last advances only in a refill
\* whose add is at least one token.
C15_RefillQuantization ==
    AfterRefill =>
        LET t == loc["t1"].t
            add == ((t - epoch.L) * TOKENS_PER_SEC) \div TicksPerSec
        IN  /\ t >= epoch.L
            /\ IF add > 0
               THEN /\ tokens = Min(BURST, epoch.M + add)
                    /\ last_refill = t
               ELSE /\ tokens = epoch.M
                    /\ last_refill = epoch.L
            /\ last_refill # epoch.L => add >= 1

\* A refill at a positive rate, later than the last one but by less than the
\* time of one token: tokens and last_refill are as before.
C15_Witness ==
    /\ AfterRefill
    /\ TOKENS_PER_SEC > 0
    /\ loc["t1"].t > epoch.L
    /\ (loc["t1"].t - epoch.L) * TOKENS_PER_SEC < TicksPerSec
    /\ epoch.M < BURST
    /\ tokens = epoch.M
    /\ last_refill = epoch.L

CallReturned ==
    /\ pc["t1"] = "idle"
    /\ epoch.calls = 1
    /\ obs.lastOutcome # "none"

\* C18: with a rate above 0 and a burst of at least 1, a sequential call made
\* at a time t >= last_refill + 1/rate is Allowed, whatever Denied calls came
\* in between; a Denied call leaves last_refill where it was, so it never
\* postpones the next refill.
C18_BoundedRecovery ==
    (CallReturned /\ TOKENS_PER_SEC > 0 /\ BURST >= 1) =>
        /\ (obs.lastAt - epoch.L) * TOKENS_PER_SEC >= TicksPerSec
               => obs.lastOutcome = "Allowed"
        /\ obs.lastOutcome = "Denied" => last_refill = epoch.L

\* The bucket was empty, a poll later than last_refill was Denied, and the
\* next call, less than a token's time after that poll but a token's time
\* after last_refill, is Allowed.
C18_Witness ==
    /\ CallReturned
    /\ TOKENS_PER_SEC > 0
    /\ epoch.M = 0
    /\ obs.prevOutcome = "Denied"
    /\ obs.prevAt > epoch.L
    /\ (obs.lastAt - obs.prevAt) * TOKENS_PER_SEC < TicksPerSec
    /\ (obs.lastAt - epoch.L) * TOKENS_PER_SEC >= TicksPerSec
    /\ obs.lastOutcome = "Allowed"

\* C19: with a burst of at least 1 a Denied call leaves the bucket as it
\* found it, tokens at 0 and last_refill at its value, and an Allowed call
\* leaves one token less than its refill made.
C19_DenialFrame ==
    (CallReturned /\ BURST >= 1) =>
        LET add == ((obs.lastAt - epoch.L) * TOKENS_PER_SEC) \div TicksPerSec
            refilled == IF add > 0 THEN Min(BURST, epoch.M + add) ELSE epoch.M
        IN  IF obs.lastOutcome = "Denied"
            THEN /\ epoch.M = 0
                 /\ tokens = 0
                 /\ last_refill = epoch.L
            ELSE /\ tokens = refilled - 1
                 /\ last_refill = IF add > 0 THEN obs.lastAt ELSE epoch.L

\* A call made later than last_refill at a positive rate is Denied: tokens is
\* still 0 and last_refill did not move.
C19_Witness ==
    /\ CallReturned
    /\ TOKENS_PER_SEC > 0
    /\ obs.lastOutcome = "Denied"
    /\ obs.lastAt > epoch.L
    /\ tokens = 0
    /\ last_refill = epoch.L

\* ---------------------------------------- claims on the admission rate
\* An interval is being counted and holds a call: it runs from acct.since to
\* the clock reading of the latest call.
IntervalCounted ==
    /\ acct.since >= 0
    /\ obs.lastAt >= acct.since

\* C17: in a sequential execution the calls Allowed within any interval of
\* length T number at most BURST + floor(TOKENS_PER_SEC * T).
C17_RateBound ==
    IntervalCounted =>
        acct.sinceGranted <=
            BURST + ((obs.lastAt - acct.since) * TOKENS_PER_SEC) \div TicksPerSec

\* C17 as the code has it: the calls Allowed within any interval of length T
\* number at most BURST + ceil(TOKENS_PER_SEC * T); time short of one token
\* that passed before the interval is credited inside it.
C17_RateBoundCeil ==
    IntervalCounted =>
        acct.sinceGranted <=
            BURST + ((obs.lastAt - acct.since) * TOKENS_PER_SEC + TicksPerSec - 1)
                        \div TicksPerSec

\* An interval shorter than the time of one token in which BURST + 1 calls
\* were Allowed: the full burst, then the token that was accruing before.
C17_Witness ==
    /\ IntervalCounted
    /\ TOKENS_PER_SEC > 0
    /\ obs.lastAt > acct.since
    /\ (obs.lastAt - acct.since) * TOKENS_PER_SEC < TicksPerSec
    /\ acct.sinceGranted = BURST + 1

====
